---- MODULE Spec2Model ----
(***************************************************************************)
(* Model of the "terminal" MCP server: the gatekeeping build (version      *)
(* 1.1.0, src/unnamed/part_000) and the plain build (version 1.0.0,        *)
(* src/src/index.ts).                                                      *)
(*                                                                         *)
(* A JavaScript string is a sequence of one-character strings, so that     *)
(* String.includes, String.startsWith and RegExp.test are computed on the  *)
(* characters.  A text built by a template literal is the concatenation of *)
(* its pieces; a fixed piece is kept as one element.                       *)
(***************************************************************************)
EXTENDS Integers, Sequences, FiniteSets, TLC

\* ------------------------------------------------------------------ bounds
MaxFrags == 2
MaxReqs == 2
MaxSignals == 1

\* ------------------------------------------------------------------ CONFIG
blockedCommands ==
  << <<"r", "m", " ", "-", "r", "f">>,
     <<"s", "u", "d", "o">>,
     <<"w", "g", "e", "t">>,
     <<"c", "u", "r", "l", " ", "-", "o">> >>

timeoutMs == 30000

allowedDirectories ==
  << <<"/", "U", "s", "e", "r", "s", "/", "t", "a", "n", "m", "a", "y", "/",
       "D", "o", "c", "u", "m", "e", "n", "t", "s">> >>

\* ------------------------------------------------------- string primitives
\* s.startsWith(p, at i): p occurs in s at position i (1-based)
OccursAt(s, p, i) ==
  /\ i >= 1
  /\ i + Len(p) - 1 <= Len(s)
  /\ \A k \in 1..Len(p) : s[i + k - 1] = p[k]

\* String.prototype.includes
Includes(s, p) == \E i \in 1..(Len(s) + 1) : OccursAt(s, p, i)

\* String.prototype.startsWith
StartsWith(s, p) == OccursAt(s, p, 1)

\* the characters the regex dot does not match
LineTerminators == {"\n", "\r"}

\* /echo.*>/ : "echo", then any characters but line terminators, then ">"
MatchesEchoRedirect(s) ==
  \E i \in 1..Len(s) :
    /\ OccursAt(s, <<"e", "c", "h", "o">>, i)
    /\ \E j \in (i + 4)..Len(s) :
         /\ s[j] = ">"
         /\ \A k \in (i + 4)..(j - 1) : s[k] \notin LineTerminators

FileOperationWords ==
  { <<"c", "p">>, <<"m", "v">>, <<"r", "m">>, <<"c", "a", "t">>,
    <<"t", "o", "u", "c", "h">>, <<"m", "k", "d", "i", "r">>,
    <<"r", "m", "d", "i", "r">> }

\* /(cp|mv|rm|cat|echo.*>|touch|mkdir|rmdir)/.test(command)
isFileOperation(command) ==
  \/ \E w \in FileOperationWords : Includes(command, w)
  \/ MatchesEchoRedirect(command)

\* the loop over CONFIG.allowedDirectories with command.includes(dir)
CommandInAllowedDirectory(command) ==
  \E d \in 1..Len(allowedDirectories) : Includes(command, allowedDirectories[d])

\* the loop over CONFIG.allowedDirectories with path.startsWith(dir)
PathIsAllowed(path) ==
  \E d \in 1..Len(allowedDirectories) : StartsWith(path, allowedDirectories[d])

\* the first blocked pattern, in list order, the command contains (0: none)
FirstBlocked(command) ==
  IF \E b \in 1..Len(blockedCommands) : Includes(command, blockedCommands[b])
  THEN CHOOSE b \in 1..Len(blockedCommands) :
         /\ Includes(command, blockedCommands[b])
         /\ \A c \in 1..(b - 1) : ~Includes(command, blockedCommands[c])
  ELSE 0

ContainsBlocked(command) == FirstBlocked(command) # 0

BlockedPrefix == "Command contains blocked pattern: "
DirectoryNotAllowed == <<"File operations only allowed in permitted directories">>
AccessDenied == <<"Access denied - path outside allowed directories">>

Thrown(message) == [ok |-> FALSE, message |-> message]
Passed == [ok |-> TRUE, message |-> <<>>]

\* a validateCommand whose directory test lost its negation
validateCommandInverted(command) ==
  IF ContainsBlocked(command)
  THEN Thrown(<<BlockedPrefix>> \o blockedCommands[FirstBlocked(command)])
  ELSE IF isFileOperation(command) /\ CommandInAllowedDirectory(command)
       THEN Thrown(DirectoryNotAllowed)
       ELSE Passed

\* a validateCommand that applies the directory policy to every command
validateCommandAlwaysDirectory(command) ==
  IF ContainsBlocked(command)
  THEN Thrown(<<BlockedPrefix>> \o blockedCommands[FirstBlocked(command)])
  ELSE IF ~CommandInAllowedDirectory(command)
       THEN Thrown(DirectoryNotAllowed)
       ELSE Passed

\* validateCommand: the thrown Error's message, or the return of true
validateCommand(command) ==
  IF ContainsBlocked(command)
  THEN Thrown(<<BlockedPrefix>> \o blockedCommands[FirstBlocked(command)])
  ELSE IF isFileOperation(command) /\ ~CommandInAllowedDirectory(command)
       THEN Thrown(DirectoryNotAllowed)
       ELSE Passed

\* ------------------------------------------------------------------ inputs
Fragments ==
  { <<"s", "u", "d", "o">>, <<"S", "u", "d", "o">>,
    <<"r", "m">>, <<" ", "-", "r", "f">>,
    <<"e", "c", "h", "o">>, <<">">>, <<"\n">>,
    <<"l", "s">>, <<"c", "a", "t">>,
    <<"/", "t", "m", "p">>,
    <<"/", "U", "s", "e", "r", "s", "/", "t", "a", "n", "m", "a", "y", "/",
      "D", "o", "c", "u", "m", "e", "n", "t", "s">> }

RECURSIVE Concats(_)
Concats(n) ==
  IF n = 0 THEN {<<>>}
  ELSE LET shorter == Concats(n - 1)
       IN  shorter \cup {s \o f : s \in shorter, f \in Fragments}

\* every string of at most MaxFrags fragments
Strings == Concats(MaxFrags)

NoTimeout == [given |-> FALSE, ms |-> 0]
Timeouts ==
  {NoTimeout} \cup {[given |-> TRUE, ms |-> m] : m \in {0 - 1, 0, 1000, 30000, 60000}}

\* what the command does when the shell runs it: the environment's part
NoProc ==
  [spawnOk |-> TRUE, forever |-> FALSE, runtime |-> 0, stdout |-> "",
   stderr |-> "", code |-> 0, overflow |-> FALSE]
Quick(out, errOut, code) ==
  [NoProc EXCEPT !.runtime = 100, !.stdout = out, !.stderr = errOut, !.code = code]
Behaviours ==
  { Quick("", "", 0), Quick("hello\n", "", 0), Quick("", "warn\n", 0),
    Quick("hello\n", "warn\n", 0), Quick("", "no such file\n", 1),
    [Quick("hello\n", "", 0) EXCEPT !.runtime = 1000],
    [Quick("hello\n", "", 0) EXCEPT !.runtime = 45000],
    [Quick("", "", 0) EXCEPT !.forever = TRUE],
    [Quick("", "", 0) EXCEPT !.overflow = TRUE],
    [Quick("", "", 0) EXCEPT !.forever = TRUE, !.overflow = TRUE],
    [Quick("", "", 0) EXCEPT !.spawnOk = FALSE] }

\* what the filesystem answers to readdir / readFile
NoFs == [ok |-> TRUE, entries |-> <<>>, content |-> ""]
FsBehaviours ==
  { NoFs,
    [NoFs EXCEPT !.ok = FALSE],
    [NoFs EXCEPT !.content = "text"],
    [NoFs EXCEPT !.entries = <<[name |-> "a", dir |-> TRUE]>>],
    [NoFs EXCEPT !.entries = <<[name |-> "a", dir |-> TRUE],
                               [name |-> "b", dir |-> FALSE]>>] }

Request(tool, arg, timeout, proc, fs) ==
  [tool |-> tool, arg |-> arg, timeout |-> timeout, proc |-> proc, fs |-> fs]

\* a slot of the request script the client never uses
NoReq == Request("none", <<>>, NoTimeout, NoProc, NoFs)

Reqs == 1..MaxReqs
Signals == {"SIGINT", "SIGTERM"}

\* ------------------------------------------------------------------- state
VARIABLES
  script,       \* the requests the client sends, one per slot (the run's input)
  sigBudget,    \* how many signals the environment still delivers (input)
  phase,        \* main(): "starting" | "connecting" | "running" | "exited"
  exit,         \* <<>> while the process lives, then <<[code, cause]>>
  log,          \* the lines of CONFIG.logFile, oldest first
  sigPending,   \* signal handlers waiting on their SERVER_SHUTDOWN write
  shutdownDone, \* SERVER_SHUTDOWN writes that have completed or failed
  pc,           \* per request: where its handler is suspended
  pendingText,  \* per request: the result or error message awaiting the log
  responses,    \* per request: the texts of the responses returned
  spawned,      \* per request: the command lines handed to a shell
  timer,        \* per request: the kill timer's delay in ms, 0 when none
  fsAccess,     \* per request: the fs.readdir / fs.readFile calls made
  logFailed,    \* per request: whether one of its log writes failed
  procResult,   \* per request: how the exec call ended
  escaped       \* per request: whether an exception left the handler

reqVars == <<pc, pendingText, responses, spawned, timer, fsAccess, logFailed,
             procResult, escaped>>
lifeVars == <<phase, exit, sigPending, shutdownDone>>
inputVars == <<script, sigBudget>>
vars == <<script, sigBudget, phase, exit, log, sigPending, shutdownDone, pc,
          pendingText, responses, spawned, timer, fsAccess, logFailed,
          procResult, escaped>>

\* ----------------------------------------------------------------- helpers
Min(a, b) == IF a < b THEN a ELSE b

\* a logger that never reaches the file
logActivityNoWrite(lines, action, req, ok) == lines

\* logActivity: the line is appended, or the failure is printed and dropped
logActivity(lines, action, req, ok) ==
  IF ok THEN Append(lines, [action |-> action, req |-> req]) ELSE lines

\* the parameter default `timeout = CONFIG.timeoutMs`
DefaultTimeout(t) == IF t.given THEN t.ms ELSE timeoutMs

\* Math.min(timeout, CONFIG.timeoutMs)
EffectiveTimeout(t) == Min(DefaultTimeout(t), timeoutMs)

\* child_process.exec rejects a timeout option that is not an unsigned integer
ExecAcceptsTimeout(ms) == ms >= 0
TimeoutOutOfRange == <<"The value of \"timeout\" is out of range.">>

\* child_process.exec rejects an empty command line
ExecAcceptsCommand(command) == command # <<>>
EmptyCommand == <<"The argument 'file' cannot be empty. Received ''">>

\* child_process.exec arms its kill timer only for a timeout above zero
ArmedTimer(ms) == IF ms > 0 THEN ms ELSE 0

\* the result text of a command that exited with code 0
FormatResult(stdout, stderr) ==
  LET out == IF stdout # "" THEN <<"Standard Output:\n", stdout, "\n">> ELSE <<>>
      err == IF stderr # "" THEN <<"Standard Error:\n", stderr, "\n">> ELSE <<>>
  IN  IF out \o err = <<>>
      THEN <<"Command executed successfully with no output.">>
      ELSE out \o err

\* error.message of a command that exited non-zero or was killed
CommandFailed(command, stderr) == <<"Command failed: ">> \o command \o <<"\n", stderr>>
MaxBufferExceeded == <<"stdout maxBuffer length exceeded">>
SpawnError == <<"spawn /bin/sh EAGAIN">>
FsError == <<"ENOENT: no such file or directory">>

ExecutePrefix == "Error executing command: "
ListPrefix == "Error listing directory: "
ReadPrefix == "Error reading file: "

\* items.map(...).join("\n") || "Directory is empty"
FormatEntry(item) == <<IF item.dir THEN "[DIR] " ELSE "[FILE] ", item.name>>
RECURSIVE JoinEntries(_)
JoinEntries(items) ==
  IF items = <<>> THEN <<>>
  ELSE IF Len(items) = 1 THEN FormatEntry(items[1])
       ELSE FormatEntry(items[1]) \o <<"\n">> \o JoinEntries(Tail(items))
FormatListing(items) ==
  IF JoinEntries(items) = <<>> THEN <<"Directory is empty">> ELSE JoinEntries(items)

Alive == phase # "exited"
Serving == phase = "running"

\* -------------------------------------------------------------------- Init
Hello == Quick("hello\n", "", 0)
OneRequest(q) == [r \in Reqs |-> IF r = 1 THEN q ELSE NoReq]

Tmp == <<"/", "t", "m", "p">>

\* the blocked patterns and the file-operation words, alone, in a longer
\* word, outside and inside the allowed directory
SampleCommands ==
  { <<"l", "s">>, <<"s", "u", "d", "o", " ", "h", "i">> }
  \cup {blockedCommands[b] : b \in 1..Len(blockedCommands)}
  \cup {<<"x">> \o blockedCommands[b] \o <<"x">> : b \in 1..Len(blockedCommands)}
  \cup {w \o Tmp : w \in FileOperationWords}
  \cup {w \o allowedDirectories[1] : w \in FileOperationWords}

SampleRequests ==
  { Request("execute-command", <<"l", "s">>, NoTimeout, Hello, NoFs),
    Request("execute-command", <<"s", "u", "d", "o", " ", "h", "i">>, NoTimeout,
            Hello, NoFs),
    Request("list_directory", allowedDirectories[1], NoTimeout, NoProc, NoFs) }

\* one execute-command call, every command string, every timeout
InitValidate ==
  /\ \E s \in Strings, t \in Timeouts :
       script = OneRequest(Request("execute-command", s, t, Hello, NoFs))
  /\ sigBudget = 0

\* one list_directory or read_file call: every path string, and every answer
\* of the filesystem for an allowed path
InitPaths ==
  /\ \E tool \in {"list_directory", "read_file"} :
       \/ \E s \in Strings :
            script = OneRequest(Request(tool, s, NoTimeout, NoProc, NoFs))
       \/ \E f \in FsBehaviours :
            script = OneRequest(Request(tool, allowedDirectories[1] \o Tmp,
                                        NoTimeout, NoProc, f))
  /\ sigBudget = 0

\* one execute-command call, every timeout, every behaviour of the command
InitExec ==
  /\ \E s \in SampleCommands, t \in Timeouts, b \in Behaviours :
       script = OneRequest(Request("execute-command", s, t, b, NoFs))
  /\ sigBudget = 0

\* concurrent calls
InitConc ==
  /\ script \in [Reqs -> SampleRequests]
  /\ sigBudget = 0

\* one call and signals
InitLife ==
  /\ \E q \in SampleRequests : script = OneRequest(q)
  /\ sigBudget \in 1..MaxSignals

InitState ==
  /\ phase = "starting"
  /\ exit = <<>>
  /\ log = <<>>
  /\ sigPending = <<>>
  /\ shutdownDone = 0
  /\ pc = [r \in Reqs |-> "idle"]
  /\ pendingText = [r \in Reqs |-> <<>>]
  /\ responses = [r \in Reqs |-> <<>>]
  /\ spawned = [r \in Reqs |-> <<>>]
  /\ timer = [r \in Reqs |-> 0]
  /\ fsAccess = [r \in Reqs |-> 0]
  /\ logFailed = [r \in Reqs |-> FALSE]
  /\ procResult = [r \in Reqs |-> "none"]
  /\ escaped = [r \in Reqs |-> FALSE]

Init == (InitValidate \/ InitPaths \/ InitExec \/ InitConc \/ InitLife) /\ InitState

\* --------------------------------------------------------------- lifecycle
\* main(): the SERVER_START write has completed or failed
StartLogged(ok) ==
  /\ phase = "starting"
  /\ log' = logActivity(log, "SERVER_START", 0, ok)
  /\ phase' = "connecting"
  /\ UNCHANGED <<exit, sigPending, shutdownDone>>
  /\ UNCHANGED inputVars
  /\ UNCHANGED reqVars

\* main(): server.connect resolved
Connected ==
  /\ phase = "connecting"
  /\ phase' = "running"
  /\ UNCHANGED <<exit, sigPending, shutdownDone, log>>
  /\ UNCHANGED inputVars
  /\ UNCHANGED reqVars

\* main(): server.connect rejected; the catch prints and calls process.exit(1)
ConnectFails ==
  /\ phase = "connecting"
  /\ phase' = "exited"
  /\ exit' = <<[code |-> 1, cause |-> "startup"]>>
  /\ UNCHANGED <<sigPending, shutdownDone, log>>
  /\ UNCHANGED inputVars
  /\ UNCHANGED reqVars

\* a SIGINT or SIGTERM arrives: its handler starts the SERVER_SHUTDOWN write
Signal(sig) ==
  /\ Alive
  /\ sigBudget > 0
  /\ sigBudget' = sigBudget - 1
  /\ sigPending' = Append(sigPending, sig)
  /\ UNCHANGED <<script, phase, exit, shutdownDone, log>>
  /\ UNCHANGED reqVars

\* a handler that exits without waiting for its write
ShutdownLoggedNoWait(i, ok) ==
  /\ Alive
  /\ i \in DOMAIN sigPending
  /\ phase' = "exited"
  /\ exit' = <<[code |-> 0, cause |-> "signal"]>>
  /\ UNCHANGED <<sigPending, shutdownDone, log>>
  /\ UNCHANGED inputVars
  /\ UNCHANGED reqVars

\* the handler's write has completed or failed: process.exit(0)
ShutdownLogged(i, ok) ==
  /\ Alive
  /\ i \in DOMAIN sigPending
  /\ log' = logActivity(log, "SERVER_SHUTDOWN", 0, ok)
  /\ shutdownDone' = shutdownDone + 1
  /\ phase' = "exited"
  /\ exit' = <<[code |-> 0, cause |-> "signal"]>>
  /\ UNCHANGED sigPending
  /\ UNCHANGED inputVars
  /\ UNCHANGED reqVars

\* --------------------------------------------- execute-command (part_000)
IsCall(r, tool) == Serving /\ pc[r] = "idle" /\ script[r].tool = tool

\* the handler is called: it starts the COMMAND_REQUESTED write and suspends
ExecuteCommand(r) ==
  /\ IsCall(r, "execute-command")
  /\ pc' = [pc EXCEPT ![r] = "logRequested"]
  /\ UNCHANGED <<pendingText, responses, spawned, timer, fsAccess, logFailed,
                 procResult, escaped, log>>
  /\ UNCHANGED inputVars
  /\ UNCHANGED lifeVars

\* the catch block is entered with error.message: it starts the COMMAND_ERROR write
Caught(r, message) ==
  /\ pc' = [pc EXCEPT ![r] = "logError"]
  /\ pendingText' = [pendingText EXCEPT ![r] = message]

\* execPromise(command, {timeout, maxBuffer}): the options are checked, then a
\* shell is spawned with the command line and the kill timer is armed
Exec(r, command, ms) ==
  IF ExecAcceptsTimeout(ms) /\ ExecAcceptsCommand(command)
  THEN /\ spawned' = [spawned EXCEPT ![r] = Append(@, command)]
       /\ timer' = [timer EXCEPT ![r] = ArmedTimer(ms)]
       /\ pc' = [pc EXCEPT ![r] = "running"]
       /\ UNCHANGED <<pendingText, procResult>>
  ELSE /\ Caught(r, IF ExecAcceptsTimeout(ms) THEN EmptyCommand ELSE TimeoutOutOfRange)
       /\ procResult' = [procResult EXCEPT ![r] = "rejected"]
       /\ UNCHANGED <<spawned, timer>>

\* a handler that runs the command before it validates it
RequestedLoggedExecFirst(r, ok) ==
  /\ Alive
  /\ pc[r] = "logRequested"
  /\ log' = logActivity(log, "COMMAND_REQUESTED", r, ok)
  /\ logFailed' = [logFailed EXCEPT ![r] = @ \/ ~ok]
  /\ Exec(r, script[r].arg, EffectiveTimeout(script[r].timeout))
  /\ UNCHANGED <<responses, fsAccess, escaped>>
  /\ UNCHANGED inputVars
  /\ UNCHANGED lifeVars

\* a handler whose COMMAND_REQUESTED write failure lands in its catch block
RequestedLoggedThrows(r, ok) ==
  /\ Alive
  /\ pc[r] = "logRequested"
  /\ log' = logActivity(log, "COMMAND_REQUESTED", r, ok)
  /\ logFailed' = [logFailed EXCEPT ![r] = @ \/ ~ok]
  /\ IF ~ok
     THEN /\ Caught(r, <<"EACCES: permission denied">>)
          /\ UNCHANGED <<spawned, timer, procResult>>
     ELSE LET v == validateCommand(script[r].arg)
          IN  IF v.ok
              THEN Exec(r, script[r].arg, EffectiveTimeout(script[r].timeout))
              ELSE /\ Caught(r, v.message)
                   /\ UNCHANGED <<spawned, timer, procResult>>
  /\ UNCHANGED <<responses, fsAccess, escaped>>
  /\ UNCHANGED inputVars
  /\ UNCHANGED lifeVars

\* the COMMAND_REQUESTED write has completed or failed: validateCommand, then
\* execPromise, run in the same turn
RequestedLogged(r, ok) ==
  /\ Alive
  /\ pc[r] = "logRequested"
  /\ log' = logActivity(log, "COMMAND_REQUESTED", r, ok)
  /\ logFailed' = [logFailed EXCEPT ![r] = @ \/ ~ok]
  /\ LET v == validateCommand(script[r].arg)
     IN  IF v.ok
         THEN Exec(r, script[r].arg, EffectiveTimeout(script[r].timeout))
         ELSE /\ Caught(r, v.message)
              /\ UNCHANGED <<spawned, timer, procResult>>
  /\ UNCHANGED <<responses, fsAccess, escaped>>
  /\ UNCHANGED inputVars
  /\ UNCHANGED lifeVars

Running(r) == Alive /\ pc[r] = "running"

\* the exec callback is called with an error: the promise rejects into the catch
ExecRejects(r, how, message) ==
  /\ Caught(r, message)
  /\ procResult' = [procResult EXCEPT ![r] = how]
  /\ timer' = [timer EXCEPT ![r] = 0]
  /\ UNCHANGED <<responses, spawned, fsAccess, logFailed, escaped, log>>
  /\ UNCHANGED inputVars
  /\ UNCHANGED lifeVars

\* the shell could not be started
SpawnFails(r) ==
  /\ Running(r)
  /\ ~script[r].proc.spawnOk
  /\ ExecRejects(r, "spawnError", SpawnError)

\* the command ends by itself, before the kill timer
ProcExit(r) ==
  /\ Running(r)
  /\ LET p == script[r].proc
     IN  /\ p.spawnOk /\ ~p.forever /\ ~p.overflow
         /\ timer[r] = 0 \/ p.runtime <= timer[r]
         /\ IF p.code = 0
            THEN /\ pc' = [pc EXCEPT ![r] = "logExecuted"]
                 /\ pendingText' = [pendingText EXCEPT ![r] = FormatResult(p.stdout, p.stderr)]
                 /\ procResult' = [procResult EXCEPT ![r] = "exit0"]
                 /\ timer' = [timer EXCEPT ![r] = 0]
                 /\ UNCHANGED <<responses, spawned, fsAccess, logFailed, escaped, log>>
                 /\ UNCHANGED inputVars
                 /\ UNCHANGED lifeVars
            ELSE ExecRejects(r, "exitNonZero", CommandFailed(script[r].arg, p.stderr))

\* the kill timer expires while the command still runs: it is killed
TimerFires(r) ==
  /\ Running(r)
  /\ timer[r] > 0
  /\ LET p == script[r].proc
     IN  /\ p.spawnOk
         /\ p.forever \/ p.runtime >= timer[r]
  /\ ExecRejects(r, "timeout", CommandFailed(script[r].arg, ""))

\* the captured output passes CONFIG.maxOutputSize: the command is killed
BufferExceeded(r) ==
  /\ Running(r)
  /\ script[r].proc.spawnOk
  /\ script[r].proc.overflow
  /\ ExecRejects(r, "maxBuffer", MaxBufferExceeded)

\* a handler that returns without a response when it has failed
RespondDropsErrors(r, text) ==
  /\ pc' = [pc EXCEPT ![r] = "responded"]
  /\ pendingText' = [pendingText EXCEPT ![r] = <<>>]
  /\ responses' = [responses EXCEPT ![r] =
                     IF text[1] \in {ExecutePrefix, ListPrefix, ReadPrefix}
                     THEN @ ELSE Append(@, text)]
  /\ escaped' = [escaped EXCEPT ![r] =
                     text[1] \in {ExecutePrefix, ListPrefix, ReadPrefix}]

\* return { content: [{ type: "text", text }] }
Respond(r, text) ==
  /\ pc' = [pc EXCEPT ![r] = "responded"]
  /\ pendingText' = [pendingText EXCEPT ![r] = <<>>]
  /\ responses' = [responses EXCEPT ![r] = Append(@, text)]
  /\ UNCHANGED escaped

\* the COMMAND_EXECUTED write has completed or failed: the result is returned
ExecutedLogged(r, ok) ==
  /\ Alive
  /\ pc[r] = "logExecuted"
  /\ log' = logActivity(log, "COMMAND_EXECUTED", r, ok)
  /\ logFailed' = [logFailed EXCEPT ![r] = @ \/ ~ok]
  /\ Respond(r, pendingText[r])
  /\ UNCHANGED <<spawned, timer, fsAccess, procResult>>
  /\ UNCHANGED inputVars
  /\ UNCHANGED lifeVars

\* the COMMAND_ERROR write has completed or failed: the error text is returned
ErrorLogged(r, ok) ==
  /\ Alive
  /\ pc[r] = "logError"
  /\ log' = logActivity(log, "COMMAND_ERROR", r, ok)
  /\ logFailed' = [logFailed EXCEPT ![r] = @ \/ ~ok]
  /\ Respond(r, <<ExecutePrefix>> \o pendingText[r])
  /\ UNCHANGED <<spawned, timer, fsAccess, procResult>>
  /\ UNCHANGED inputVars
  /\ UNCHANGED lifeVars

\* ------------------------------------------- list_directory and read_file
\* a path check that accepts the allowed directory anywhere in the path
AuthorizedSubstring(path) == CommandInAllowedDirectory(path)

\* the isAllowed loop of both handlers
Authorized(path) == PathIsAllowed(path)

\* the handler is called: a denied path is answered in the same turn, an
\* allowed one starts the filesystem call and suspends
FsCall(r, tool, prefix, waitPc) ==
  /\ IsCall(r, tool)
  /\ IF Authorized(script[r].arg)
     THEN /\ fsAccess' = [fsAccess EXCEPT ![r] = @ + 1]
          /\ pc' = [pc EXCEPT ![r] = waitPc]
          /\ UNCHANGED <<pendingText, responses, escaped>>
     ELSE /\ Respond(r, <<prefix>> \o AccessDenied)
          /\ UNCHANGED fsAccess
  /\ UNCHANGED <<spawned, timer, logFailed, procResult, log>>
  /\ UNCHANGED inputVars
  /\ UNCHANGED lifeVars

\* the filesystem call has resolved or rejected: the text is returned
FsDone(r, waitPc, prefix, text) ==
  /\ Alive
  /\ pc[r] = waitPc
  /\ Respond(r, IF script[r].fs.ok THEN text ELSE <<prefix>> \o FsError)
  /\ UNCHANGED <<spawned, timer, fsAccess, logFailed, procResult, log>>
  /\ UNCHANGED inputVars
  /\ UNCHANGED lifeVars

ListDirectory(r) == FsCall(r, "list_directory", ListPrefix, "readdir")
ReaddirDone(r) == FsDone(r, "readdir", ListPrefix, FormatListing(script[r].fs.entries))
ReadFile(r) == FsCall(r, "read_file", ReadPrefix, "readFile")
ReadFileDone(r) == FsDone(r, "readFile", ReadPrefix, <<script[r].fs.content>>)

\* -------------------------------------------------------------------- Next
Next ==
  \/ \E ok \in BOOLEAN : StartLogged(ok)
  \/ Connected
  \/ ConnectFails
  \/ \E sig \in Signals : Signal(sig)
  \/ \E i \in 1..MaxSignals, ok \in BOOLEAN : ShutdownLogged(i, ok)
  \/ \E r \in Reqs : ExecuteCommand(r)
  \/ \E r \in Reqs, ok \in BOOLEAN : RequestedLogged(r, ok)
  \/ \E r \in Reqs : SpawnFails(r)
  \/ \E r \in Reqs : ProcExit(r)
  \/ \E r \in Reqs : TimerFires(r)
  \/ \E r \in Reqs : BufferExceeded(r)
  \/ \E r \in Reqs, ok \in BOOLEAN : ExecutedLogged(r, ok)
  \/ \E r \in Reqs, ok \in BOOLEAN : ErrorLogged(r, ok)
  \/ \E r \in Reqs : ListDirectory(r)
  \/ \E r \in Reqs : ReaddirDone(r)
  \/ \E r \in Reqs : ReadFile(r)
  \/ \E r \in Reqs : ReadFileDone(r)

Spec == Init /\ [][Next]_vars

\* ------------------------------------------- execute-command (src/index.ts)
\* main() of index.ts has called server.connect
InitIndex ==
  /\ \E s \in Strings, b \in Behaviours :
       script = OneRequest(Request("execute-command", s, NoTimeout, b, NoFs))
  /\ sigBudget = 0
  /\ phase = "connecting"
  /\ exit = <<>>
  /\ log = <<>>
  /\ sigPending = <<>>
  /\ shutdownDone = 0
  /\ pc = [r \in Reqs |-> "idle"]
  /\ pendingText = [r \in Reqs |-> <<>>]
  /\ responses = [r \in Reqs |-> <<>>]
  /\ spawned = [r \in Reqs |-> <<>>]
  /\ timer = [r \in Reqs |-> 0]
  /\ fsAccess = [r \in Reqs |-> 0]
  /\ logFailed = [r \in Reqs |-> FALSE]
  /\ procResult = [r \in Reqs |-> "none"]
  /\ escaped = [r \in Reqs |-> FALSE]

\* the handler is called: execPromise(command), with no options; a rejected
\* command line is answered in the same turn
IndexExecuteCommand(r) ==
  /\ IsCall(r, "execute-command")
  /\ IF ExecAcceptsCommand(script[r].arg)
     THEN /\ spawned' = [spawned EXCEPT ![r] = Append(@, script[r].arg)]
          /\ pc' = [pc EXCEPT ![r] = "running"]
          /\ UNCHANGED <<pendingText, responses, procResult, escaped>>
     ELSE /\ Respond(r, <<ExecutePrefix>> \o EmptyCommand)
          /\ procResult' = [procResult EXCEPT ![r] = "rejected"]
          /\ UNCHANGED spawned
  /\ UNCHANGED <<timer, fsAccess, logFailed, log>>
  /\ UNCHANGED inputVars
  /\ UNCHANGED lifeVars

\* the exec promise settles: the result or the error text is returned
IndexSettled(r, how, text) ==
  /\ Respond(r, text)
  /\ procResult' = [procResult EXCEPT ![r] = how]
  /\ UNCHANGED <<spawned, timer, fsAccess, logFailed, log>>
  /\ UNCHANGED inputVars
  /\ UNCHANGED lifeVars

IndexSpawnFails(r) ==
  /\ Running(r)
  /\ ~script[r].proc.spawnOk
  /\ IndexSettled(r, "spawnError", <<ExecutePrefix>> \o SpawnError)

IndexProcExit(r) ==
  /\ Running(r)
  /\ LET p == script[r].proc
     IN  /\ p.spawnOk /\ ~p.forever /\ ~p.overflow
         /\ IF p.code = 0
            THEN IndexSettled(r, "exit0", FormatResult(p.stdout, p.stderr))
            ELSE IndexSettled(r, "exitNonZero",
                              <<ExecutePrefix>> \o CommandFailed(script[r].arg, p.stderr))

IndexBufferExceeded(r) ==
  /\ Running(r)
  /\ script[r].proc.spawnOk
  /\ script[r].proc.overflow
  /\ IndexSettled(r, "maxBuffer", <<ExecutePrefix>> \o MaxBufferExceeded)

NextIndex ==
  \/ Connected
  \/ ConnectFails
  \/ \E r \in Reqs : IndexExecuteCommand(r)
  \/ \E r \in Reqs : IndexSpawnFails(r)
  \/ \E r \in Reqs : IndexProcExit(r)
  \/ \E r \in Reqs : IndexBufferExceeded(r)

SpecIndex == InitIndex /\ [][NextIndex]_vars

\* ------------------------------------------------------------------ claims
IsExec(r) == script[r].tool = "execute-command"
Responded(r) == pc[r] = "responded"
Command(r) == script[r].arg
Effective(r) == EffectiveTimeout(script[r].timeout)
PastValidation(r) == pc[r] \notin {"idle", "logRequested"}
Lines(r, actions) == {i \in DOMAIN log : log[i].req = r /\ log[i].action \in actions}
ResultActions == {"COMMAND_EXECUTED", "COMMAND_ERROR"}
BlockedText(r) ==
  /\ Len(responses[r]) = 1
  /\ StartsWith(responses[r][1], <<ExecutePrefix, BlockedPrefix>>)
DirectoryText == <<ExecutePrefix>> \o DirectoryNotAllowed

\* C1: a command that contains a blocked substring is answered with
\* "Error executing command: Command contains blocked pattern..." and no
\* subprocess is spawned while the request is handled, whatever the timeout
\* (stated for the runs in which a shell can be started).
C1_BlockedNeverSpawns ==
  \A r \in Reqs :
    IsExec(r) /\ ContainsBlocked(Command(r)) /\ script[r].proc.spawnOk =>
      /\ spawned[r] = <<>>
      /\ pc[r] # "running"
      /\ Responded(r) => BlockedText(r)

\* C2 as stated: a file-operation command that contains no allowed directory
\* is answered with exactly the permitted-directories error.
C2_FileOperationOutside ==
  \A r \in Reqs :
    IsExec(r) /\ Responded(r) /\ isFileOperation(Command(r))
      /\ ~CommandInAllowedDirectory(Command(r))
    => responses[r] = <<DirectoryText>>

\* C2 amended: a file-operation command that contains no allowed directory
\* and no blocked substring is answered with exactly the
\* permitted-directories error, and is never spawned.
C2_FileOperationOutsideUnblocked ==
  \A r \in Reqs :
    IsExec(r) /\ isFileOperation(Command(r))
      /\ ~CommandInAllowedDirectory(Command(r)) /\ ~ContainsBlocked(Command(r))
    => /\ spawned[r] = <<>>
       /\ Responded(r) => responses[r] = <<DirectoryText>>

C2_Witness ==
  \E r \in Reqs :
    /\ IsExec(r) /\ Responded(r) /\ isFileOperation(Command(r))
    /\ ~CommandInAllowedDirectory(Command(r)) /\ ~ContainsBlocked(Command(r))
    /\ responses[r] = <<DirectoryText>>

Outlasts(p, ms) == p.forever \/ p.runtime > ms

\* C4: for every timeout value a validated command runs under the kill
\* timer min(requested, 30000), never above the ceiling, and a command that
\* would run longer is ended by that timer and answered as a timeout
\* (stated for the commands that would run longer than the ceiling itself).
C4_TimeoutBoundsEveryCommand ==
  \A r \in Reqs :
    IsExec(r) /\ spawned[r] # <<>> /\ script[r].proc.spawnOk
      /\ ~script[r].proc.overflow /\ Outlasts(script[r].proc, Effective(r))
      /\ Outlasts(script[r].proc, timeoutMs)
    => /\ Effective(r) <= timeoutMs
       /\ pc[r] = "running" => timer[r] = Effective(r) /\ timer[r] > 0
       /\ pc[r] # "running" => procResult[r] = "timeout"

\* C5: with its log writes succeeding, a finished execute-command call has
\* exactly one COMMAND_REQUESTED line and exactly one result line, which is
\* COMMAND_EXECUTED or COMMAND_ERROR and never both; a list_directory or
\* read_file call has no line in the log.
C5_LogLinesPerCall ==
  \A r \in Reqs :
    /\ ~IsExec(r) => Lines(r, {"COMMAND_REQUESTED"} \cup ResultActions) = {}
    /\ Cardinality(Lines(r, ResultActions)) <= 1
    /\ Cardinality(Lines(r, {"COMMAND_REQUESTED"})) <= 1
    /\ IsExec(r) /\ Responded(r) /\ ~logFailed[r] =>
         /\ Cardinality(Lines(r, {"COMMAND_REQUESTED"})) = 1
         /\ Cardinality(Lines(r, ResultActions)) = 1

C5_Witness ==
  \E r, q \in Reqs :
    /\ IsExec(r) /\ Responded(r) /\ ~logFailed[r]
    /\ Cardinality(Lines(r, ResultActions)) = 1
    /\ script[q].tool = "list_directory" /\ Responded(q) /\ fsAccess[q] = 1

\* C6: a failed log write changes nothing but the log: two calls with the
\* same command, timeout and subprocess outcome get the same spawn decision
\* and the same response text whichever of their log writes failed, and no
\* exception leaves the handler.
C6_LogFailureIsSwallowed ==
  /\ \A r \in Reqs : ~escaped[r]
  /\ \A r \in Reqs : logFailed[r] /\ pc[r] = "logError" =>
       \/ ~validateCommand(Command(r)).ok
       \/ procResult[r] # "none"
  /\ \A r, q \in Reqs :
       /\ IsExec(r) /\ script[q] = script[r]
       /\ Responded(r) /\ Responded(q)
       /\ procResult[r] = procResult[q]
       => /\ responses[r] = responses[q]
          /\ spawned[r] = spawned[q]

C6_Witness ==
  \E r, q \in Reqs :
    /\ IsExec(r) /\ script[q] = script[r]
    /\ Responded(r) /\ Responded(q)
    /\ logFailed[r] /\ ~logFailed[q]
    /\ Lines(r, {"COMMAND_REQUESTED"} \cup ResultActions) = {}
    /\ spawned[r] # <<>>

\* C7: a list_directory path that does not start with an allowed directory
\* is answered with exactly the access-denied text and the filesystem is
\* not read; readdir is called only for a path that passed the prefix check.
C7_ListOutsideDenied ==
  \A r \in Reqs :
    script[r].tool = "list_directory" /\ ~StartsWith(Command(r), allowedDirectories[1])
    => /\ fsAccess[r] = 0
       /\ pc[r] # "readdir"
       /\ Responded(r) => responses[r] = <<<<ListPrefix>> \o AccessDenied>>

C7_Witness ==
  \E r \in Reqs :
    /\ script[r].tool = "list_directory" /\ Responded(r)
    /\ Includes(Command(r), allowedDirectories[1])
    /\ ~StartsWith(Command(r), allowedDirectories[1])
    /\ fsAccess[r] = 0

\* whether the call of r met a failure of validation, authorisation,
\* spawning, timeout, buffer or filesystem
Failed(r) ==
  IF IsExec(r)
  THEN \/ ~validateCommand(Command(r)).ok
       \/ procResult[r] \in {"rejected", "spawnError", "exitNonZero", "timeout", "maxBuffer"}
  ELSE \/ ~StartsWith(Command(r), allowedDirectories[1])
       \/ ~script[r].fs.ok
ErrorPrefix(r) ==
  IF IsExec(r) THEN ExecutePrefix
  ELSE IF script[r].tool = "list_directory" THEN ListPrefix ELSE ReadPrefix

\* C8: every finished call has returned exactly one response with one text,
\* no call returns more than one, no exception leaves a handler, a failed
\* call's text begins with its tool's error prefix, and no step is retried.
C8_ErrorsAreData ==
  \A r \in Reqs :
    /\ ~escaped[r]
    /\ Len(responses[r]) = (IF Responded(r) THEN 1 ELSE 0)
    /\ Len(spawned[r]) <= 1
    /\ fsAccess[r] <= 1
    /\ Responded(r) /\ Failed(r) => responses[r][1][1] = ErrorPrefix(r)

C8_Witness ==
  \E r \in Reqs :
    /\ IsExec(r) /\ Responded(r) /\ Failed(r)
    /\ procResult[r] = "timeout"
    /\ responses[r] = <<<<ExecutePrefix>> \o CommandFailed(Command(r), "")>>

HasExited(code) == exit # <<>> /\ exit[1].code = code

\* C9: after a SIGINT or SIGTERM, in any state of the server, the process
\* exits; it exits with code 0 only once a SERVER_SHUTDOWN write has
\* completed or failed, whether or not the line reached the log; and it
\* exits with code 1 only when the startup failed, before any call.
C9_SignalsExitAfterLogging ==
  /\ [](HasExited(0) => shutdownDone >= 1 /\ sigPending # <<>>)
  /\ [](HasExited(1) => \A r \in Reqs : pc[r] = "idle")
  /\ [](shutdownDone >= 1 => HasExited(0))
  /\ [](sigPending # <<>> => <>(phase = "exited"))

C9_Witness ==
  /\ HasExited(0)
  /\ \E r \in Reqs : pc[r] = "running"
  /\ \A i \in DOMAIN log : log[i].action # "SERVER_SHUTDOWN"

\* the steps a handler may take, in order
HandlerSteps ==
  { <<"idle", "logRequested">>, <<"logRequested", "running">>,
    <<"logRequested", "logError">>, <<"running", "logExecuted">>,
    <<"running", "logError">>, <<"logExecuted", "responded">>,
    <<"logError", "responded">>,
    <<"idle", "readdir">>, <<"idle", "readFile">>, <<"idle", "responded">>,
    <<"readdir", "responded">>, <<"readFile", "responded">> }

OrderedInLog(r) ==
  \A i \in Lines(r, {"COMMAND_REQUESTED"}), j \in Lines(r, ResultActions) : i < j

\* C10: under any interleaving each execute-command call goes through
\* Received, Logged(requested), Validated, Executed, Logged(result),
\* Responded in that order: its COMMAND_REQUESTED line is written before it
\* is validated, a subprocess is spawned only once validation has passed,
\* its result line is written only after the subprocess ended or validation
\* failed and not after the response, it spawns at most one subprocess, and
\* its lines are in this order in the log.
C10_StepsInOrder ==
  /\ [][\A r \in Reqs : pc'[r] # pc[r] => <<pc[r], pc'[r]>> \in HandlerSteps]_vars
  /\ [][\A r \in Reqs : Len(spawned'[r]) > Len(spawned[r]) =>
          /\ pc[r] = "logRequested" /\ pc'[r] = "running"
          /\ validateCommand(Command(r)).ok]_vars
  /\ [][\A r \in Reqs : Lines(r, ResultActions)' # Lines(r, ResultActions) =>
          /\ pc[r] \in {"logExecuted", "logError"} /\ pc'[r] = "responded"
          /\ responses[r] = <<>>]_vars
  /\ [](\A r \in Reqs :
          /\ Len(spawned[r]) <= 1
          /\ OrderedInLog(r)
          /\ pc[r] \in {"idle", "logRequested"} =>
               spawned[r] = <<>> /\ Lines(r, ResultActions) = {}
          /\ IsExec(r) /\ PastValidation(r) /\ Lines(r, {"COMMAND_REQUESTED"}) = {} =>
               logFailed[r]
          /\ pc[r] \in {"logExecuted", "logError"} =>
               procResult[r] # "none" \/ ~validateCommand(Command(r)).ok)

C10_Witness ==
  /\ Len(log) >= 4
  /\ log[2].req # 0 /\ log[3].req # 0 /\ log[4].req # 0
  /\ log[2].req # log[3].req
  /\ log[4].req = log[2].req
  /\ log[2].action = "COMMAND_REQUESTED" /\ log[4].action \in ResultActions
  /\ spawned[log[2].req] # <<>>

\* the event loop runs a signal handler's continuation once its write settles
FairSpec ==
  /\ Init
  /\ [][Next]_vars
  /\ WF_vars(\E i \in 1..MaxSignals, ok \in BOOLEAN : ShutdownLogged(i, ok))

====
